---- MODULE Spec2Model ----
(***************************************************************************)
(* Model of minicom's websocket chat relay (src/minicom/consumers.py).     *)
(*                                                                         *)
(* Every live websocket is one ChatConsumer.  Consumers share the channel  *)
(* layer (groups of channel names, one FIFO queue per channel) and the     *)
(* Message table.  A consumer dispatches one event at a time; the steps of *)
(* a handler are cut at the awaits where another consumer can run.         *)
(*                                                                         *)
(* Strings the code computes with (emails, room names, message texts) are  *)
(* sequences of one-character strings, so that str.replace and str.strip   *)
(* are computed and not assumed.                                           *)
(***************************************************************************)
EXTENDS Integers, Sequences, FiniteSets, TLC

VARIABLES
    status,       \* per connection: "new", "active", "closed", "crashed"
    role,         \* self.role
    email,        \* self.email
    user_room,    \* self.user_room
    active_room,  \* self.active_room
    pc,           \* per connection: the await its current handler is at
    data,         \* per connection: receive()'s local `data`, while it runs
    saved,        \* per connection: the handler's local `saved`
    groups,       \* channel layer: set of <<group, channel>>
    inbox,        \* channel layer: per channel, the events not yet dispatched
    out,          \* per connection: the frames sent to the peer, in order
    store,        \* Message table, in insertion (id) order
    clock,        \* the server's clock at the last insert
    nrecv,        \* number of frames the server has received so far
    log           \* history of the group_send calls for stored messages, in call order

vars == <<status, role, email, user_room, active_room, pc, data, saved,
          groups, inbox, out, store, clock, nrecv, log>>

----------------------------------------------------------------------------
(* Bounds and input sets *)

MaxMsgs == 2
MaxRecv == 3

\* Two sockets: c1 is opened by a participant's chat page, c2 by the single
\* admin's page; the page fixes the `role` of the URL.
Conns == {"c1", "c2"}
url_role(c) == IF c = "c1" THEN "user" ELSE "admin"

\* Python's None, and a frame that json.loads rejects.
None == <<"None">>
BadJson == <<"BadJson">>

\* "a@" and "a-at-" are distinct identities; "b" has no reserved character.
Emails == { <<"a", "@">>, <<"a", "-", "a", "t", "-">>, <<"b">> }
Texts == { <<" ">>, <<" ", "h">> }

\* The `email` of the URL: the participant's identity, one whose room another
\* identity shares or one whose room is its own; the admin page always
\* connects with the same one.
url_emails(r) == IF r = "user" THEN { <<"a", "@">>, <<"b">> } ELSE { <<"b">> }

----------------------------------------------------------------------------
(* Pure functions *)

RECURSIVE replace(_, _, _)
replace(s, old, new) ==
    IF s = <<>> THEN <<>>
    ELSE (IF Head(s) = old THEN new ELSE <<Head(s)>>) \o replace(Tail(s), old, new)

sanitize_email(e) ==
    replace(replace(e, "@", <<"-", "a", "t", "-">>),
            "+", <<"-", "p", "l", "u", "s", "-">>)

\* f"user_{sanitize_email(email)}"
room_of(e) == <<"u", "s", "e", "r", "_">> \o sanitize_email(e)

RECURSIVE lstrip(_)
lstrip(s) ==
    IF s # <<>> /\ Head(s) = " " THEN lstrip(Tail(s)) ELSE s

RECURSIVE rstrip(_)
rstrip(s) ==
    IF s # <<>> /\ s[Len(s)] = " " THEN rstrip(SubSeq(s, 1, Len(s) - 1)) ELSE s

\* Mutant: the text is used as it was sent.
strip_nothing(s) == s

strip(s) == rstrip(lstrip(s))

\* data.get(key, default) on the parsed frame
get(d, key, default) == IF d[key] = None THEN default ELSE d[key]

\* Python truthiness of an optional string
truthy(s) == s # None /\ s # <<>>

----------------------------------------------------------------------------
(* Message table *)

\* The dict save_message / get_messages build from a row.
row_dict(m) ==
    [id |-> m.id, email |-> m.email, sender_type |-> m.sender_type,
     content |-> m.content, timestamp |-> m.timestamp, is_read |-> m.is_read]

\* Message.objects.create(...): the row gets the next id, the time of the
\* insert (auto_now_add) and is_read = False.
new_row(st, e, text, sender_type, now) ==
    [id |-> Len(st) + 1, email |-> e, sender_type |-> sender_type,
     content |-> text, timestamp |-> now, is_read |-> FALSE]

\* Mutant: every row is stored as written by the admin.
save_message_as_admin(st, e, text, sender_type, now) ==
    Append(st, new_row(st, e, text, "admin", now))

\* Mutant: update_or_create on the participant instead of create.
save_message_update_or_create(st, e, text, sender_type, now) ==
    IF \E i \in 1..Len(st) : st[i].email = e
    THEN [i \in 1..Len(st) |->
            IF st[i].email = e
            THEN [st[i] EXCEPT !.content = text, !.sender_type = sender_type,
                               !.timestamp = now]
            ELSE st[i]]
    ELSE Append(st, new_row(st, e, text, sender_type, now))

save_message(st, e, text, sender_type, now) ==
    Append(st, new_row(st, e, text, sender_type, now))

\* timezone.now() at an insert: not before the previous insert, and after the
\* server's start (clock 0).
insert_times(last) == {last, last + 1} \ {0}

\* filter(participant_email=email).order_by("timestamp"): every order of the
\* matching rows that is non-decreasing in timestamp (rows with equal
\* timestamps come in an order the database chooses).
get_messages(st, e) ==
    LET idx == {i \in 1..Len(st) : st[i].email = e}
        n   == Cardinality(idx)
    IN  { [k \in 1..n |-> row_dict(st[p[k]])] :
            p \in { q \in [1..n -> idx] :
                      /\ \A i, j \in 1..n : i # j => q[i] # q[j]
                      /\ \A i, j \in 1..n :
                            i < j => st[q[i]].timestamp <= st[q[j]].timestamp } }

\* Mutant: the update does not filter on the sender.
mark_messages_read_any_sender(st, e, sender_type) ==
    [i \in 1..Len(st) |->
        IF st[i].email = e THEN [st[i] EXCEPT !.is_read = TRUE] ELSE st[i]]

\* Mutant: the update flips the flag of every row of the sender.
mark_messages_read_toggle(st, e, sender_type) ==
    [i \in 1..Len(st) |->
        IF st[i].email = e /\ st[i].sender_type = sender_type
        THEN [st[i] EXCEPT !.is_read = ~st[i].is_read]
        ELSE st[i]]

\* filter(participant_email, sender_type, is_read=False).update(is_read=True)
mark_messages_read(st, e, sender_type) ==
    [i \in 1..Len(st) |->
        IF st[i].email = e /\ st[i].sender_type = sender_type /\ ~st[i].is_read
        THEN [st[i] EXCEPT !.is_read = TRUE]
        ELSE st[i]]

----------------------------------------------------------------------------
(* Channel layer *)

group_add(g, room, c) == g \cup {<<room, c>>}

group_discard(g, room, c) == g \ {<<room, c>>}

\* Mutant: the event is queued on every channel, whatever its groups.
group_send_to_all(ib, g, room, event) ==
    [c \in Conns |-> Append(ib[c], event)]

\* Mutant: the event is put at the front of the members' queues.
group_send_in_front(ib, g, room, event) ==
    [c \in Conns |-> IF <<room, c>> \in g THEN <<event>> \o ib[c] ELSE ib[c]]

\* group_send: the event is queued on every channel that is in the group now.
group_send(ib, g, room, event) ==
    [c \in Conns |-> IF <<room, c>> \in g THEN Append(ib[c], event) ELSE ib[c]]

chat_event(m) == [type |-> "chat_message", message |-> m]

read_event(reader, e) == [type |-> "messages_read", reader |-> reader, email |-> e]

\* chat_message / messages_read handlers: the frame sent for an event.
frame_of(event) ==
    IF event.type = "chat_message"
    THEN [type |-> "message", message |-> event.message]
    ELSE [type |-> "messages_read", reader |-> event.reader, email |-> event.email]

----------------------------------------------------------------------------
(* Frames a client can send *)

\* The fields receive() reads; None is a key the frame does not have.
Frame(type, message, to, e) ==
    [type |-> type, message |-> message, to |-> to, email |-> e]

\* A participant's page sends its text, read receipts, and (mistaken for its
\* role, or unknown to the server) get_conversation and typing frames.
UserFrames ==
    { Frame("message", m, None, None) : m \in Texts \cup {None} }
      \cup { Frame("read_messages", None, None, None) }
      \cup { Frame("get_conversation", None, None, e) : e \in Emails }
      \cup { Frame("typing", None, None, None) }

\* The admin's page names the participant in `to` or `email`, or omits it.
AdminFrames ==
    { Frame("message", m, t, None) : m \in Texts \cup {None}, t \in Emails \cup {None} }
      \cup { Frame("read_messages", None, None, e) : e \in Emails \cup {None} }
      \cup { Frame("get_conversation", None, None, e) : e \in Emails \cup {None} }
      \cup { Frame("typing", None, None, None) }

FramesOf(r) ==
    IF r = "user" THEN UserFrames ELSE IF r = "admin" THEN AdminFrames ELSE {}

JsonFrames == UserFrames \cup AdminFrames

----------------------------------------------------------------------------
(* Initial state: no connection yet, empty table *)

Init ==
    /\ status = [c \in Conns |-> "new"]
    /\ role = [c \in Conns |-> None]
    /\ email = [c \in Conns |-> None]
    /\ user_room = [c \in Conns |-> None]
    /\ active_room = [c \in Conns |-> None]
    /\ pc = [c \in Conns |-> "idle"]
    /\ data = [c \in Conns |-> None]
    /\ saved = [c \in Conns |-> None]
    /\ groups = {}
    /\ inbox = [c \in Conns |-> <<>>]
    /\ out = [c \in Conns |-> <<>>]
    /\ store = <<>>
    /\ clock = 0
    /\ nrecv = 0
    /\ log = <<>>

Idle(c) == status[c] = "active" /\ pc[c] = "idle"

----------------------------------------------------------------------------
(* connect *)

\* Mutant: the join of connect() is guarded by the wrong role.
connect_groups_admin_joins(g, c, r, e) ==
    IF r = "admin" THEN group_add(g, room_of(e), c) ELSE g

\* Mutant: connect() reads the history without having joined the room.
connect_groups_not_joined(g, c, r, e) == g

\* if self.role == "user": group_add(self.user_room, self.channel_name)
connect_groups(g, c, r, e) ==
    IF r = "user" THEN group_add(g, room_of(e), c) ELSE g

\* Mutant: a user connection starts with its own room as active_room.
Connect_user_views_own_room(c, r, e) ==
    /\ status[c] = "new"
    /\ status' = [status EXCEPT ![c] = "active"]
    /\ role' = [role EXCEPT ![c] = r]
    /\ email' = [email EXCEPT ![c] = e]
    /\ user_room' = [user_room EXCEPT ![c] = room_of(e)]
    /\ groups' = connect_groups(groups, c, r, e)
    /\ active_room' = [active_room EXCEPT ![c] =
                          IF r = "user" THEN room_of(e) ELSE None]
    /\ pc' = [pc EXCEPT ![c] = IF r = "user" THEN "conn_hist" ELSE "idle"]
    /\ UNCHANGED <<data, saved, inbox, out, store, clock, nrecv, log>>

\* connect up to the await after accept(): role, email, user_room are set, a
\* user joins its room, active_room is None.
Connect(c, r, e) ==
    /\ status[c] = "new"
    /\ status' = [status EXCEPT ![c] = "active"]
    /\ role' = [role EXCEPT ![c] = r]
    /\ email' = [email EXCEPT ![c] = e]
    /\ user_room' = [user_room EXCEPT ![c] = room_of(e)]
    /\ groups' = connect_groups(groups, c, r, e)
    /\ active_room' = [active_room EXCEPT ![c] = None]
    /\ pc' = [pc EXCEPT ![c] = IF r = "user" THEN "conn_hist" ELSE "idle"]
    /\ UNCHANGED <<data, saved, inbox, out, store, clock, nrecv, log>>

\* connect, user: the history read and the history frame.
ConnectHistory(c) ==
    /\ status[c] = "active" /\ pc[c] = "conn_hist"
    /\ \E msgs \in get_messages(store, email[c]) :
          out' = [out EXCEPT ![c] = Append(@, [type |-> "history", messages |-> msgs])]
    /\ pc' = [pc EXCEPT ![c] = "idle"]
    /\ UNCHANGED <<status, role, email, user_room, active_room, data, saved,
                   groups, inbox, store, clock, nrecv, log>>

----------------------------------------------------------------------------
(* Lifetime of a consumer's state *)

\* The locals of a handler exist while it runs.
Fresh == [c \in Conns |-> None]

return(f, c) == [f EXCEPT ![c] = None]

\* The consumer object is gone once the connection is closed or has failed.
Gone(c, how) ==
    /\ status' = [status EXCEPT ![c] = how]
    /\ role' = return(role, c)
    /\ email' = return(email, c)
    /\ user_room' = return(user_room, c)
    /\ active_room' = return(active_room, c)
    /\ out' = [out EXCEPT ![c] = <<>>]

\* What every receive() does first: one more frame taken from the socket.
Take(c) ==
    /\ Idle(c)
    /\ nrecv < MaxRecv
    /\ nrecv' = nrecv + 1

----------------------------------------------------------------------------
(* disconnect *)

disconnect_groups(g, c) ==
    LET g1 == IF role[c] = "user" THEN group_discard(g, user_room[c], c) ELSE g
    IN  IF truthy(active_room[c]) THEN group_discard(g1, active_room[c], c) ELSE g1

\* websocket.disconnect is dispatched between handlers; the consumer stops and
\* the events still queued on its channel are dropped with the channel.
Disconnect(c) ==
    /\ Idle(c)
    /\ groups' = disconnect_groups(groups, c)
    /\ Gone(c, "closed")
    /\ inbox' = [inbox EXCEPT ![c] = <<>>]
    /\ UNCHANGED <<pc, data, saved, store, clock, nrecv, log>>

----------------------------------------------------------------------------
(* receive *)

\* json.loads raises: the exception leaves the consumer, the server drops the
\* connection and disconnect() never runs, so the channel stays in its groups.
ReceiveUnparsable(c) ==
    /\ Take(c)
    /\ Gone(c, "crashed")
    /\ UNCHANGED <<pc, data, saved, groups, inbox, store, clock, log>>

\* type == "message", role == "user": strip, drop if empty, else save.
ReceiveUserMessage(c, d) ==
    /\ role[c] = "user" /\ d.type = "message"
    /\ Take(c)
    /\ LET text == strip(get(d, "message", <<>>))
       IN  IF text = <<>>
           THEN UNCHANGED <<pc, data, saved, store, clock>>
           ELSE /\ Len(store) < MaxMsgs
                /\ \E now \in insert_times(clock) :
                      /\ store' = save_message(store, email[c], text, "user", now)
                      /\ clock' = now
                /\ saved' = [saved EXCEPT ![c] = row_dict(store'[Len(store')])]
                /\ data' = [data EXCEPT ![c] = d]
                /\ pc' = [pc EXCEPT ![c] = "u_send"]
    /\ UNCHANGED <<status, role, email, user_room, active_room, groups, inbox,
                   out, log>>

\* The group_send to the user's own room, and the second one the code guards
\* with active_room == user_room.
UserSend(c) ==
    /\ status[c] = "active" /\ pc[c] = "u_send"
    /\ LET ev    == chat_event(saved[c])
           ib1   == group_send(inbox, groups, user_room[c], ev)
           again == active_room[c] = user_room[c]
       IN  /\ inbox' = IF again THEN group_send(ib1, groups, active_room[c], ev)
                       ELSE ib1
           /\ log' = IF again
                     THEN log \o << [room |-> user_room[c], event |-> ev],
                                    [room |-> active_room[c], event |-> ev] >>
                     ELSE Append(log, [room |-> user_room[c], event |-> ev])
    /\ pc' = [pc EXCEPT ![c] = "idle"]
    /\ saved' = return(saved, c)
    /\ data' = return(data, c)
    /\ UNCHANGED <<status, role, email, user_room, active_room, groups, out,
                   store, clock, nrecv>>

\* type == "message", role == "admin": needs `to` and a non-empty text.
ReceiveAdminMessage(c, d) ==
    /\ role[c] = "admin" /\ d.type = "message"
    /\ Take(c)
    /\ LET target == get(d, "to", None)
           text   == strip(get(d, "message", <<>>))
       IN  IF ~truthy(target) \/ text = <<>>
           THEN UNCHANGED <<pc, data, saved, store, clock>>
           ELSE /\ Len(store) < MaxMsgs
                /\ \E now \in insert_times(clock) :
                      /\ store' = save_message(store, target, text, "admin", now)
                      /\ clock' = now
                /\ saved' = [saved EXCEPT ![c] = row_dict(store'[Len(store')])]
                /\ data' = [data EXCEPT ![c] = d]
                /\ pc' = [pc EXCEPT ![c] = "a_send"]
    /\ UNCHANGED <<status, role, email, user_room, active_room, groups, inbox,
                   out, log>>

\* The group_send to the target's room.
AdminSend(c) ==
    /\ status[c] = "active" /\ pc[c] = "a_send"
    /\ LET ev          == chat_event(saved[c])
           target_room == room_of(data[c].to)
       IN  /\ inbox' = group_send(inbox, groups, target_room, ev)
           /\ log' = Append(log, [room |-> target_room, event |-> ev])
    /\ pc' = [pc EXCEPT ![c] = "idle"]
    /\ saved' = return(saved, c)
    /\ data' = return(data, c)
    /\ UNCHANGED <<status, role, email, user_room, active_room, groups, out,
                   store, clock, nrecv>>

\* Mutant: the switch joins the new room without leaving the previous one.
leave_previous_skipped(g, c) == g

\* if self.active_room: group_discard(self.active_room, self.channel_name)
leave_previous(g, c) ==
    IF truthy(active_room[c]) THEN group_discard(g, active_room[c], c) ELSE g

\* type == "get_conversation", role == "admin": sanitize_email(None) raises
\* when the frame has no email; otherwise the previous room is left.
ReceiveGetConversation(c, d) ==
    /\ role[c] = "admin" /\ d.type = "get_conversation"
    /\ Take(c)
    /\ IF d.email = None
       THEN /\ Gone(c, "crashed")
            /\ UNCHANGED <<pc, data, groups>>
       ELSE /\ groups' = leave_previous(groups, c)
            /\ data' = [data EXCEPT ![c] = d]
            /\ pc' = [pc EXCEPT ![c] = "gc_join"]
            /\ UNCHANGED <<status, role, email, user_room, active_room, out>>
    /\ UNCHANGED <<saved, inbox, store, clock, log>>

\* group_add(new_room) and self.active_room = new_room.
GetConversationJoin(c) ==
    /\ status[c] = "active" /\ pc[c] = "gc_join"
    /\ LET new_room == room_of(data[c].email)
       IN  /\ groups' = group_add(groups, new_room, c)
           /\ active_room' = [active_room EXCEPT ![c] = new_room]
    /\ pc' = [pc EXCEPT ![c] = "gc_hist"]
    /\ UNCHANGED <<status, role, email, user_room, data, saved, inbox, out,
                   store, clock, nrecv, log>>

\* The history read and the private conversation frame.
GetConversationHistory(c) ==
    /\ status[c] = "active" /\ pc[c] = "gc_hist"
    /\ \E msgs \in get_messages(store, data[c].email) :
          out' = [out EXCEPT ![c] =
                    Append(@, [type |-> "conversation", email |-> data[c].email,
                               messages |-> msgs])]
    /\ pc' = [pc EXCEPT ![c] = "idle"]
    /\ data' = return(data, c)
    /\ UNCHANGED <<status, role, email, user_room, active_room, saved, groups,
                   inbox, store, clock, nrecv, log>>

\* type == "read_messages": a user marks the admin's messages of its own
\* conversation; an admin marks the user's messages of data["email"], if given.
ReceiveReadMessages(c, d) ==
    /\ d.type = "read_messages"
    /\ Take(c)
    /\ IF role[c] = "user"
       THEN /\ store' = mark_messages_read(store, email[c], "admin")
            /\ data' = [data EXCEPT ![c] = d]
            /\ pc' = [pc EXCEPT ![c] = "rm_send"]
       ELSE IF truthy(d.email)
       THEN /\ store' = mark_messages_read(store, d.email, "user")
            /\ data' = [data EXCEPT ![c] = d]
            /\ pc' = [pc EXCEPT ![c] = "rm_send"]
       ELSE UNCHANGED <<store, data, pc>>
    /\ UNCHANGED <<status, role, email, user_room, active_room, saved, groups,
                   inbox, out, clock, log>>

\* The messages_read notice to the conversation's room.
ReadSend(c) ==
    /\ status[c] = "active" /\ pc[c] = "rm_send"
    /\ LET room == IF role[c] = "user" THEN user_room[c] ELSE room_of(data[c].email)
           ev   == IF role[c] = "user" THEN read_event("user", email[c])
                   ELSE read_event("admin", data[c].email)
       IN  inbox' = group_send(inbox, groups, room, ev)
    /\ pc' = [pc EXCEPT ![c] = "idle"]
    /\ data' = return(data, c)
    /\ UNCHANGED <<status, role, email, user_room, active_room, saved, groups,
                   out, store, clock, nrecv, log>>

\* A frame no branch of receive() matches: an unknown type, or
\* get_conversation on a user connection.
ReceiveIgnored(c, d) ==
    /\ \/ d.type \notin {"message", "get_conversation", "read_messages"}
       \/ d.type = "get_conversation" /\ role[c] # "admin"
    /\ Take(c)
    /\ UNCHANGED <<status, role, email, user_room, active_room, pc, data, saved,
                   groups, inbox, out, store, clock, log>>

----------------------------------------------------------------------------
(* Dispatch of a group event: chat_message / messages_read send one frame *)

Deliver(c) ==
    /\ Idle(c)
    /\ inbox[c] # <<>>
    /\ out' = [out EXCEPT ![c] = Append(@, frame_of(Head(inbox[c])))]
    /\ inbox' = [inbox EXCEPT ![c] = Tail(@)]
    /\ UNCHANGED <<status, role, email, user_room, active_room, pc, data, saved,
                   groups, store, clock, nrecv, log>>

----------------------------------------------------------------------------
(* Specification *)

\* A step of a handler that is already running, or of the dispatch loop.
Progress(c) ==
    \/ ConnectHistory(c)
    \/ UserSend(c)
    \/ AdminSend(c)
    \/ GetConversationJoin(c)
    \/ GetConversationHistory(c)
    \/ ReadSend(c)
    \/ Deliver(c)

Next ==
    \/ \E c \in Conns : \E e \in url_emails(url_role(c)) : Connect(c, url_role(c), e)
    \/ \E c \in Conns : ConnectHistory(c)
    \/ \E c \in Conns : Disconnect(c)
    \/ \E c \in Conns : ReceiveUnparsable(c)
    \/ \E c \in Conns : \E d \in FramesOf(role[c]) : ReceiveUserMessage(c, d)
    \/ \E c \in Conns : UserSend(c)
    \/ \E c \in Conns : \E d \in FramesOf(role[c]) : ReceiveAdminMessage(c, d)
    \/ \E c \in Conns : AdminSend(c)
    \/ \E c \in Conns : \E d \in FramesOf(role[c]) : ReceiveGetConversation(c, d)
    \/ \E c \in Conns : GetConversationJoin(c)
    \/ \E c \in Conns : GetConversationHistory(c)
    \/ \E c \in Conns : \E d \in FramesOf(role[c]) : ReceiveReadMessages(c, d)
    \/ \E c \in Conns : ReadSend(c)
    \/ \E c \in Conns : \E d \in FramesOf(role[c]) : ReceiveIgnored(c, d)
    \/ \E c \in Conns : Deliver(c)

Spec == Init /\ [][Next]_vars

\* The event loop runs every handler that is ready and dispatches every queued
\* event; clients are free to send nothing more.
FairSpec == Spec /\ \A c \in Conns : WF_vars(Progress(c))

----------------------------------------------------------------------------
(* Properties *)

\* The rooms a channel is subscribed to in the channel layer.
rooms_of(c) == { g[1] : g \in { x \in groups : x[2] = c } }

\* The frames of one type a connection's peer has been sent, in order.
frames(c, type) == SelectSeq(out[c], LAMBDA f : f.type = type)

\* C1: in every state, also between the leave and the join of a switch and
\* after a failed handler, the admin's channel is in at most one room.
C1_AdminAtMostOneRoom ==
    \A c \in Conns : url_role(c) = "admin" => Cardinality(rooms_of(c)) <= 1

\* An admin that has been sent the conversation of one room and is now
\* subscribed to another one: it has switched.
C1_Witness ==
    \E c \in Conns :
        /\ role[c] = "admin" /\ Idle(c)
        /\ Len(frames(c, "conversation")) = 2
        /\ room_of(frames(c, "conversation")[1].email) # active_room[c]
        /\ rooms_of(c) = {active_room[c]}

\* C2: a user connection is subscribed to exactly its own room, the one
\* derived from its identity, in every state from connect to disconnect,
\* whatever frames it has sent and whichever handler step it is at.
C2_UserExactlyOwnRoom ==
    \A c \in Conns :
        role[c] = "user" /\ status[c] = "active" =>
            rooms_of(c) = {room_of(email[c])}

\* A user connection that has had a message and a read receipt handled (it
\* has been sent both back) and is now sending a further frame.
C2_Witness ==
    \E c \in Conns :
        /\ role[c] = "user" /\ status[c] = "active" /\ pc[c] # "idle"
        /\ Len(frames(c, "message")) >= 1
        /\ Len(frames(c, "messages_read")) >= 1

\* The participants whose conversation an admin connection has asked for, in
\* the order of its get_conversation requests.
viewed(c) ==
    LET f == frames(c, "conversation") IN [i \in 1..Len(f) |-> f[i].email]

\* A step that is the group_send of a stored message of participant e.
SendsMessageFor(e) ==
    /\ Len(log') = Len(log) + 1
    /\ log'[Len(log')].event.type = "chat_message"
    /\ log'[Len(log')].event.message.email = e

\* C3: once an admin connection has handled get_conversation for A and then
\* for B, with A # B, it is subscribed to B's room only, and the send of a
\* message stored for A afterwards queues the message for A's user
\* connection and not for the admin connection.
C3_SwitchedAdminNotDelivered ==
    [][\A a \in Conns, A \in Emails, B \in Emails :
          ( /\ role[a] = "admin" /\ status[a] = "active"
            /\ pc[a] \in {"idle", "a_send"}
            /\ A # B
            /\ viewed(a) = <<A, B>>
            /\ SendsMessageFor(A) )
          => /\ rooms_of(a) = {room_of(B)}
             /\ inbox'[a] = inbox[a]
             /\ \A u \in Conns :
                   role[u] = "user" /\ status[u] = "active" /\ email[u] = A
                     => inbox'[u] = Append(inbox[u], log'[Len(log')].event)]_vars

\* The stored messages of participant e, in insertion order.
of_participant(st, e) == SelectSeq(st, LAMBDA m : m.email = e)

\* An admin-authored message of participant e is stored.
hasAdminReplied(st, e) ==
    \E i \in 1..Len(st) : st[i].email = e /\ st[i].sender_type = "admin"

\* C4: when the only stored message of a participant is the unread message
\* its user connection has just sent, an auto-reply is under way: the store
\* comes to hold a second message of that participant, authored by ai.
C4_FreshMessageGetsAutoReply ==
    \A e \in Emails :
        ( /\ Len(of_participant(store, e)) = 1
          /\ of_participant(store, e)[1].sender_type = "user"
          /\ ~of_participant(store, e)[1].is_read )
        ~> ( /\ Len(of_participant(store, e)) >= 2
             /\ of_participant(store, e)[2].sender_type = "ai" )

\* C5: when an admin-authored message of the participant is already stored,
\* the handling of a non-empty message frame of its user connection appends
\* exactly one row, authored by user, and nothing else: the send that ends
\* the handler leaves the store alone and no ai row exists afterwards.
C5_NoAutoReplyAfterAdmin ==
    [][\A c \in Conns :
          /\ ( /\ role[c] = "user" /\ Idle(c) /\ pc'[c] = "u_send"
               /\ hasAdminReplied(store, email[c]) )
             => /\ Len(store') = Len(store) + 1
                /\ SubSeq(store', 1, Len(store)) = store
                /\ store'[Len(store')].email = email[c]
                /\ store'[Len(store')].sender_type = "user"
          /\ ( /\ pc[c] = "u_send" /\ pc'[c] = "idle"
               /\ hasAdminReplied(store, email[c]) )
             => /\ store' = store
                /\ \A i \in 1..Len(store') : store'[i].sender_type # "ai"
                /\ \A k \in Conns : status'[k] = "active" /\ pc[k] = "idle"
                                         => pc'[k] = "idle"]_vars

\* The user connection has just stored a message for a participant the admin
\* had written to before.
C5_Witness ==
    \E c \in Conns :
        /\ role[c] = "user" /\ status[c] = "active" /\ pc[c] = "u_send"
        /\ store[Len(store)].id = saved[c].id
        /\ hasAdminReplied(SubSeq(store, 1, Len(store) - 1), email[c])

\* C6: when an admin message for a participant is stored after the
\* participant's message that found no admin message (so that its auto-reply
\* is in flight), the auto-reply still comes: an ai message of that
\* participant is stored and, like the admin message, sent to its room.
C6_AutoReplyNotSuppressed ==
    \A e \in Emails :
        ( \E i, j \in 1..Len(store) :
             /\ i < j
             /\ store[i].email = e /\ store[i].sender_type = "user"
             /\ ~hasAdminReplied(SubSeq(store, 1, i), e)
             /\ store[j].email = e /\ store[j].sender_type = "admin" )
        ~> ( \E k \in 1..Len(log) :
                /\ log[k].room = room_of(e)
                /\ log[k].event.type = "chat_message"
                /\ log[k].event.message.sender_type = "ai" )

\* C7: every group_send to a room queues its event for each user connection
\* whose own room it is, from connect to disconnect; it queues an event for
\* a live admin connection only if the room is the one that connection has
\* joined by get_conversation and not left since; and a connection is sent
\* only what is queued for it, oldest first.
C7_DeliveredWhileSubscribed ==
    [][/\ Len(log') = Len(log) + 1 =>
            LET sent == log'[Len(log')] IN
            \A c \in Conns :
               /\ ( role[c] = "user" /\ status[c] = "active"
                    /\ room_of(email[c]) = sent.room )
                  => inbox'[c] = Append(inbox[c], sent.event)
               /\ ( role[c] = "admin" /\ status[c] = "active"
                    /\ inbox'[c] # inbox[c] )
                  => /\ inbox'[c] = Append(inbox[c], sent.event)
                     /\ active_room[c] = sent.room
                     /\ pc[c] # "gc_join"
       /\ \A c \in Conns :
             Len(frames(c, "message"))' > Len(frames(c, "message"))
               => /\ status[c] = "active" /\ inbox[c] # <<>>
                  /\ out'[c] = Append(out[c], frame_of(Head(inbox[c])))
                  /\ inbox'[c] = Tail(inbox[c])]_vars

\* Two messages were sent to a user's room, one before the admin joined it
\* and one after: the user has been sent both, the admin the second one only.
C7_Witness ==
    \E a \in Conns, u \in Conns :
        /\ role[a] = "admin" /\ role[u] = "user" /\ status[u] = "active"
        /\ active_room[a] = room_of(email[u])
        /\ Len(frames(u, "message")) = 2
        /\ Len(frames(a, "message")) = 1
        /\ frames(a, "message")[1] = frames(u, "message")[2]

\* The frames sent for the group_send calls so far, in call order.
sent_frames == [i \in 1..Len(log) |-> frame_of(log[i].event)]

\* The message frames a channel has got, dispatched or still queued.
got_frames(c) ==
    frames(c, "message")
      \o SelectSeq([i \in 1..Len(inbox[c]) |-> frame_of(inbox[c][i])],
                   LAMBDA f : f.type = "message")

\* q from its i-th element on is l from its j-th element on with some
\* elements left out.
RECURSIVE SubSeqFrom(_, _, _, _)
SubSeqFrom(q, l, i, j) ==
    IF i > Len(q) THEN TRUE
    ELSE IF j > Len(l) THEN FALSE
    ELSE IF q[i] = l[j] THEN SubSeqFrom(q, l, i + 1, j + 1)
    ELSE SubSeqFrom(q, l, i, j + 1)

IsSubSeq(q, l) == SubSeqFrom(q, l, 1, 1)

\* C8: a connection gets the messages of group_send calls in the order of the
\* calls: what it has been sent and has queued is the sequence of calls with
\* the ones it was not subscribed for left out.
C8_DeliveryInCallOrder ==
    \A c \in Conns : IsSubSeq(got_frames(c), sent_frames)

\* A connection has been sent two stored messages, the earlier call first.
C8_Witness ==
    \E c \in Conns :
        /\ Len(frames(c, "message")) = 2
        /\ frames(c, "message")[1].message.id < frames(c, "message")[2].message.id

\* C9: the handling of a malformed frame (one json.loads rejects, one of an
\* unknown type, get_conversation on a user connection) sends nothing, leaves
\* the store and the groups as they are, and the connection stays active.
C9_MalformedIgnored ==
    [][\A c \in Conns :
          ( \/ ReceiveUnparsable(c)
            \/ \E d \in JsonFrames : ReceiveIgnored(c, d) )
          => /\ status'[c] = "active"
             /\ out' = out /\ inbox' = inbox
             /\ store' = store /\ groups' = groups]_vars

\* C10: the handling of an admin's get_conversation frame that has no email
\* leaves active_room and the groups as they are, sends nothing, and the
\* connection stays active.
C10_GetConversationWithoutEmailDropped ==
    [][\A c \in Conns, d \in AdminFrames :
          ( /\ d.type = "get_conversation" /\ d.email = None
            /\ ReceiveGetConversation(c, d) )
          => /\ status'[c] = "active"
             /\ active_room' = active_room /\ groups' = groups
             /\ out' = out]_vars

\* A text of spaces only, or of no character at all.
blank(t) == \A i \in 1..Len(t) : t[i] = " "

\* C11: the handling of a user connection's message frame whose text is
\* missing or blank stores no row, queues no event for any channel, sends no
\* frame (no error either) to any peer, and the handler is over: the
\* connection stays active and ready for its next frame.
C11_EmptyUserMessageDropped ==
    [][\A c \in Conns, d \in UserFrames :
          ( /\ d.type = "message"
            /\ d.message = None \/ blank(d.message)
            /\ ReceiveUserMessage(c, d) )
          => /\ store' = store /\ clock' = clock
             /\ inbox' = inbox /\ log' = log
             /\ out' = out
             /\ status'[c] = "active" /\ pc'[c] = "idle"]_vars

\* A user connection has sent one frame since its history, and it was
\* dropped: nothing is stored, nothing is queued or sent to anyone.
C11_Witness ==
    \E c \in Conns :
        /\ role[c] = "user" /\ Idle(c)
        /\ nrecv = 1
        /\ store = <<>>
        /\ out[c] = << [type |-> "history", messages |-> <<>>] >>
        /\ \A k \in Conns : inbox[k] = <<>> /\ status[k] # "crashed"
        /\ \A k \in Conns : k # c => status[k] = "new"

\* C12: the handling of an admin's read_messages frame for participant P
\* leaves every user-authored row of P read, and the is_read flag of every
\* other row (admin- or ai-authored of P, any row of another participant)
\* as it was; no row is added or removed.
C12_AdminReadMarksUserMessagesOnly ==
    [][\A c \in Conns :
          ( /\ role[c] = "admin" /\ Idle(c)
            /\ pc'[c] = "rm_send" )
          => LET P == data'[c].email IN
             /\ P \in Emails
             /\ Len(store') = Len(store)
             /\ \A i \in 1..Len(store) :
                   IF store[i].email = P /\ store[i].sender_type = "user"
                   THEN store'[i].is_read
                   ELSE store'[i].is_read = store[i].is_read]_vars

\* The admin's read_messages for a participant is being handled: the
\* participant's user-authored row is read, its admin-authored row, stored
\* before, is still unread.
C12_Witness ==
    \E c \in Conns, i, j \in 1..Len(store) :
        /\ role[c] = "admin" /\ status[c] = "active" /\ pc[c] = "rm_send"
        /\ store[i].email = data[c].email /\ store[i].sender_type = "user"
        /\ store[i].is_read
        /\ store[j].email = data[c].email /\ store[j].sender_type = "admin"
        /\ ~store[j].is_read

\* The participant a frame sent to a peer belongs to.
participant_of(f) == IF f.type = "message" THEN f.message.email ELSE f.email

\* C13: distinct identities have distinct rooms: whatever is sent to the room
\* of another participant Q stays out of P's room, so that a user connection
\* of participant P is sent message and messages_read frames of P only.
C13_NoCrossParticipantDelivery ==
    \A c \in Conns :
        role[c] = "user" /\ status[c] = "active" =>
            \A i \in 1..Len(out[c]) :
                out[c][i].type \in {"message", "messages_read"}
                  => /\ participant_of(out[c][i]) = email[c]
                     /\ room_of(participant_of(out[c][i])) = user_room[c]

\* C14: the rows of a participant carry timestamps that do not decrease with
\* the id, also when the user and the admin connection insert in turn, and
\* every read of the participant's messages, as sent in a history or
\* conversation frame, lists them in the order of their insertion.
C14_ListedInAppendOrder ==
    /\ \A i, j \in 1..Len(store) :
          i < j /\ store[i].email = store[j].email
            => store[i].timestamp <= store[j].timestamp
    /\ \A c \in Conns : \A k \in 1..Len(out[c]) :
          out[c][k].type \in {"history", "conversation"}
            => \A i, j \in 1..Len(out[c][k].messages) :
                  i < j => out[c][k].messages[i].id < out[c][k].messages[j].id

\* C15: no step removes a row or changes the id, participant, sender,
\* content or timestamp of a row that exists; a step that changes is_read of
\* a row is the marking done for a read_messages frame.
C15_StoreAppendOnly ==
    [][/\ Len(store') >= Len(store)
       /\ \A i \in 1..Len(store) :
             /\ store'[i].id = store[i].id
             /\ store'[i].email = store[i].email
             /\ store'[i].sender_type = store[i].sender_type
             /\ store'[i].content = store[i].content
             /\ store'[i].timestamp = store[i].timestamp
       /\ (\E i \in 1..Len(store) : store'[i].is_read # store[i].is_read)
             => \E c \in Conns :
                   /\ Idle(c) /\ pc'[c] = "rm_send"
                   /\ data'[c].type = "read_messages"]_vars

\* A participant's message was marked read and a further message of the
\* participant was stored after that: the first row is as it was stored,
\* but for is_read.
C15_Witness ==
    /\ Len(store) = 2
    /\ store[1].email = store[2].email
    /\ store[1].sender_type = store[2].sender_type
    /\ store[1].is_read /\ ~store[2].is_read
    /\ store[1].id = 1 /\ store[1].content = <<"h">>

\* The connection's socket is closed: by the peer, or by the server after a
\* handler failed.
over(c) == status[c] \in {"closed", "crashed"}

\* C16: once a connection is closed its channel is in no room, its own room
\* and the room it was viewing included, and no later group_send queues an
\* event for it.
C16_ClosedConnectionInNoRoom ==
    [][\A c \in Conns :
          over(c)' => /\ rooms_of(c)' = {}
                      /\ over(c) => inbox'[c] = inbox[c]]_vars

\* C17: on every table the program can build, marking the messages of a
\* participant and a sender read a second time gives the table the first
\* marking gave, and marking when no unread message of that participant and
\* sender is stored gives the table itself.
C17_MarkReadIdempotent ==
    \A e \in Emails, k \in {"user", "admin"} :
        LET once == mark_messages_read(store, e, k) IN
        /\ mark_messages_read(once, e, k) = once
        /\ (\A i \in 1..Len(store) :
               store[i].email = e /\ store[i].sender_type = k => store[i].is_read)
             => once = store

\* The admin has had the user's message of a participant marked read twice
\* in a row (the participant's connection was sent both notices) and the
\* message is read.
C17_Witness ==
    \E u \in Conns :
        /\ role[u] = "user" /\ status[u] = "active"
        /\ Len(frames(u, "messages_read")) = 2
        /\ \A i \in 1..2 : frames(u, "messages_read")[i].reader = "admin"
        /\ Len(store) = 1
        /\ store[1].email = email[u] /\ store[1].sender_type = "user"
        /\ store[1].is_read

\* C18: a stored message is sent to its room once: no two group_send calls
\* carry the same message, and no connection is sent, or has queued, two
\* message frames of the same stored message (the second send of the user
\* branch never happens, a user connection's active_room being None).
C18_MessageBroadcastOnce ==
    /\ \A i, j \in 1..Len(log) :
          i # j => log[i].event.message.id # log[j].event.message.id
    /\ \A c \in Conns : \A i, j \in 1..Len(got_frames(c)) :
          i # j => got_frames(c)[i].message.id # got_frames(c)[j].message.id

\* The user's own message has come back to it, once, and the admin viewing
\* the user's room has been sent it too, once.
C18_Witness ==
    \E u \in Conns, a \in Conns :
        /\ role[u] = "user" /\ Idle(u) /\ inbox[u] = <<>>
        /\ role[a] = "admin" /\ Idle(a) /\ inbox[a] = <<>>
        /\ active_room[a] = user_room[u]
        /\ Len(frames(u, "message")) = 1
        /\ frames(u, "message")[1].message.sender_type = "user"
        /\ frames(a, "message") = frames(u, "message")

\* The ids of the messages a sequence of frames carries.
ids_of(fs) == { fs[i].message.id : i \in 1..Len(fs) }

\* The ids of the messages in the history frame of a user connection.
history_ids(c) ==
    LET h == frames(c, "history")
    IN  IF h = <<>> THEN {} ELSE { h[1].messages[i].id : i \in 1..Len(h[1].messages) }

\* The ids of the messages that are stored and whose group_send is the next
\* step of the handler that stored them.
unsent_ids == { saved[w].id : w \in { k \in Conns : pc[k] \in {"u_send", "a_send"} } }

\* C19: once a user connection of P has been sent its history, and as long
\* as it is open, every stored message of P is in that history, or has been
\* sent to the connection or is queued for it as a message frame, or is
\* about to be sent to P's room by the handler that has just stored it.
C19_NoMessageLostAcrossConnect ==
    \A c \in Conns :
        role[c] = "user" /\ status[c] = "active" /\ pc[c] # "conn_hist" =>
            \A i \in 1..Len(store) :
                store[i].email = email[c] =>
                    store[i].id \in history_ids(c) \cup ids_of(got_frames(c))
                                      \cup unsent_ids

\* The admin stored a message for P before P's user connection read its
\* history and sent it after the connection had joined its room: the message
\* is in the history and has been sent as a message frame as well.
C19_Witness ==
    \E c \in Conns :
        /\ role[c] = "user" /\ Idle(c)
        /\ \E i \in 1..Len(store) :
              /\ store[i].email = email[c] /\ store[i].sender_type = "admin"
              /\ store[i].id \in history_ids(c)
              /\ store[i].id \in ids_of(frames(c, "message"))

\* C20: the message frames of one participant that a connection has been
\* sent or has queued come in the order of the messages' ids, also when one
\* was stored by the user connection and the other by the admin connection
\* with their handlers interleaved.
C20_LiveOrderIsIdOrder ==
    \A c \in Conns : \A i, j \in 1..Len(got_frames(c)) :
        ( /\ i < j
          /\ got_frames(c)[i].message.email = got_frames(c)[j].message.email )
        => got_frames(c)[i].message.id < got_frames(c)[j].message.id

====
